---- MODULE Spec2Model ----
(***************************************************************************)
(* GeminiLiveService (services/geminiLiveService.ts): the connection       *)
(* lifecycle, the transport callbacks and the transcript segmentation of   *)
(* one service instance, driven by its caller (connect / disconnect) and   *)
(* by the transport (getUserMedia and live.connect settling, open,         *)
(* message, error and close events of each channel the instance opened).   *)
(*                                                                         *)
(* A resource field (session, audioContext, mediaStream, processor,        *)
(* source) is 0 when null and 1 when it holds an object: the code only     *)
(* tests these fields for null.  A callback field is 0 when null and else  *)
(* the number of the connect() call that installed the callback.  Text is  *)
(* a sequence of one-character strings.                                    *)
(***************************************************************************)
EXTENDS Integers, Sequences, FiniteSets, TLC

\* ---------------------------------------------------------------- bounds
\* connect() calls that start an attempt in one behaviour
MaxAttempts == 2
\* longest transcript buffer (input + delta) a message may produce
MaxBuf == 1

Attempts == 1..MaxAttempts

\* ---------------------------------------------------------------- constants
\* CloseEvent code of a normal closure, the one onclose compares with
NormalClose == 1000
\* CloseEvent codes the transport may deliver: the normal one and an abnormal one
CloseCodes == {NormalClose, 1006}

\* ---------------------------------------------------------------- text
Whitespace == {" "}
Terminal == {".", "?", "!"}

\* String.prototype.trim
RECURSIVE TrimLeft(_)
TrimLeft(t) ==
  IF t # <<>> /\ Head(t) \in Whitespace THEN TrimLeft(Tail(t)) ELSE t

RECURSIVE TrimRight(_)
TrimRight(t) ==
  IF t # <<>> /\ t[Len(t)] \in Whitespace
    THEN TrimRight(SubSeq(t, 1, Len(t) - 1)) ELSE t

trim(t) == TrimRight(TrimLeft(t))

\* the first match as it would be if the pattern also matched a mark at the
\* end of the text, /([.?!])(\s+|$)/: C13 rests on the required whitespace
matchIndexAtEnd(t) ==
  LET hits == {i \in 1..Len(t) : t[i] \in Terminal /\ (i = Len(t) \/ t[i + 1] \in Whitespace)}
  IN IF hits = {} THEN 0 ELSE CHOOSE i \in hits : \A j \in hits : i <= j

\* index of the punctuation mark of the first match of /([.?!])\s+/, 0 if none
matchIndex(t) ==
  LET hits == {i \in 1..(Len(t) - 1) : t[i] \in Terminal /\ t[i + 1] \in Whitespace}
  IN IF hits = {} THEN 0 ELSE CHOOSE i \in hits : \A j \in hits : i <= j

\* the end of the match as it would be if the pattern consumed one
\* whitespace character, /([.?!])\s/: C14 rests on the greedy \s+
matchEndOneSpace(t, j) == j

\* index of the last character of the match: \s+ is greedy
RECURSIVE matchEnd(_, _)
matchEnd(t, j) ==
  IF j + 1 <= Len(t) /\ t[j + 1] \in Whitespace THEN matchEnd(t, j + 1) ELSE j

\* the while loop of handleMessage: the sentences it emits and the remainder
RECURSIVE boundaryScan(_)
boundaryScan(t) ==
  LET i == matchIndex(t) IN
  IF i = 0 THEN [finals |-> <<>>, rest |-> t]
  ELSE LET completeSentence == trim(SubSeq(t, 1, i))
           remainder == SubSeq(t, matchEnd(t, i + 1) + 1, Len(t))
           r == boundaryScan(remainder)
       IN [finals |-> (IF completeSentence # <<>> THEN <<completeSentence>> ELSE <<>>)
                        \o r.finals,
           rest |-> r.rest]

\* ---------------------------------------------------------------- callbacks
\* one invocation of the segment callback installed by connect() number cb
Segment(cb, text, isFinal) ==
  [kind |-> "segment", cb |-> cb, text |-> text, isFinal |-> isFinal]

\* one invocation of the error callback installed by connect() number cb
ErrorCall(cb, reason) ==
  [kind |-> "error", cb |-> cb, text |-> reason, isFinal |-> FALSE]

RECURSIVE finalSegments(_, _)
finalSegments(cb, texts) ==
  IF texts = <<>> THEN <<>>
  ELSE <<Segment(cb, Head(texts), TRUE)>> \o finalSegments(cb, Tail(texts))

\* ---------------------------------------------------------------- the object
\* the fields of a GeminiLiveService after construction
NewService ==
  [session |-> 0, audioContext |-> 0, mediaStream |-> 0, processor |-> 0,
   source |-> 0, isConnected |-> FALSE, onTranscription |-> 0, onError |-> 0,
   currentInputText |-> <<>>, currentOutputText |-> <<>>]

\* what a method leaves behind: the fields, the callbacks it invoked in order,
\* whether it ran disconnect()
Ret(s, out, disc) == [s |-> s, out |-> out, disc |-> disc]

\* ---------------------------------------------------------------- disconnect
\* disconnect() as it would be without the clearing of callbacks and buffers
\* (lines 246-249): C4 rests on those lines
disconnectLeavesCallbacks(s) ==
  Ret([s EXCEPT !.isConnected = FALSE, !.mediaStream = 0, !.processor = 0,
                !.source = 0, !.audioContext = 0, !.session = 0],
      IF s.isConnected /\ s.onTranscription # 0 /\ trim(s.currentOutputText) # <<>>
        THEN <<Segment(s.onTranscription, trim(s.currentOutputText), TRUE)>>
        ELSE <<>>, TRUE)

\* disconnect() as it would be if the flush did not test isConnected
\* (line 217): C9 rests on that test
disconnectFlushesUnconnected(s) ==
  Ret(NewService,
      IF s.onTranscription # 0 /\ trim(s.currentOutputText) # <<>>
        THEN <<Segment(s.onTranscription, trim(s.currentOutputText), TRUE)>>
        ELSE <<>>, TRUE)

\* disconnect()
disconnect(s) ==
  Ret([s EXCEPT !.isConnected = FALSE, !.mediaStream = 0, !.processor = 0,
                !.source = 0, !.audioContext = 0, !.session = 0,
                !.onTranscription = 0, !.onError = 0,
                !.currentInputText = <<>>, !.currentOutputText = <<>>],
      IF s.isConnected /\ s.onTranscription # 0 /\ trim(s.currentOutputText) # <<>>
        THEN <<Segment(s.onTranscription, trim(s.currentOutputText), TRUE)>>
        ELSE <<>>, TRUE)

\* ---------------------------------------------------------------- handleRuntimeError
handleRuntimeError(s, reason) ==
  IF s.isConnected
    THEN LET d == disconnect(s)
         IN Ret(d.s,
                (IF s.onError # 0 THEN <<ErrorCall(s.onError, reason)>> ELSE <<>>) \o d.out,
                TRUE)
    ELSE Ret(s, <<>>, FALSE)

\* ---------------------------------------------------------------- connect
\* the catch block as it would be without its disconnect() (line 113): C10
\* rests on that call
connectCatchKeepsState(s, reason) ==
  Ret(s, IF s.onError # 0 THEN <<ErrorCall(s.onError, reason)>> ELSE <<>>, FALSE)

\* the catch block of connect()
connectCatch(s, reason) ==
  LET d == disconnect(s)
  IN Ret(d.s,
         (IF s.onError # 0 THEN <<ErrorCall(s.onError, reason)>> ELSE <<>>) \o d.out,
         TRUE)

\* connect() as it would be without the isConnected guard (line 31): C8 rests
\* on that guard
connectUnguarded(s, a, throws) ==
  LET s1 == [s EXCEPT !.onTranscription = a, !.onError = a,
                      !.currentInputText = <<>>, !.currentOutputText = <<>>]
  IN IF throws THEN connectCatch(s1, "setup")
     ELSE Ret([s1 EXCEPT !.audioContext = 1], <<>>, FALSE)

\* connect() as it would be without the reset of the buffers (lines 35-36):
\* C23 rests on that reset
connectKeepsBuffers(s, a, throws) ==
  IF s.isConnected THEN Ret(s, <<>>, FALSE)
  ELSE LET s1 == [s EXCEPT !.onTranscription = a, !.onError = a]
       IN IF throws THEN connectCatch(s1, "setup")
          ELSE Ret([s1 EXCEPT !.audioContext = 1], <<>>, FALSE)

\* connect() up to its first suspension (await getUserMedia); a is the number
\* of the attempt, throws says whether the setup before the await raises
connect(s, a, throws) ==
  IF s.isConnected THEN Ret(s, <<>>, FALSE)
  ELSE LET s1 == [s EXCEPT !.onTranscription = a, !.onError = a,
                           !.currentInputText = <<>>, !.currentOutputText = <<>>]
       IN IF throws THEN connectCatch(s1, "setup")
          ELSE Ret([s1 EXCEPT !.audioContext = 1], <<>>, FALSE)

\* ---------------------------------------------------------------- startAudioStreaming
\* the part after the optional await of audioContext.resume(): on a null
\* audioContext or a null mediaStream createMediaStreamSource raises and the
\* rejected promise of the async method is dropped
createAudioGraph(s) ==
  IF s.audioContext = 0 \/ s.mediaStream = 0 THEN s
  ELSE [s EXCEPT !.source = 1, !.processor = 1]

\* ---------------------------------------------------------------- handleMessage
\* handleMessage as it would be if the preview tested the buffers without
\* trim() (lines 197, 199): C16 rests on those calls
handleMessageRawPreview(s, m) ==
  IF s.onTranscription = 0 THEN Ret(s, <<>>, FALSE)
  ELSE
    LET in1 == IF m.input # <<>> THEN s.currentInputText \o m.input
                                 ELSE s.currentInputText
        scan == boundaryScan(s.currentOutputText \o m.output)
        in2 == IF m.output # <<>> THEN <<>> ELSE in1
        out2 == IF m.output # <<>> THEN scan.rest ELSE s.currentOutputText
        fin2 == IF m.output # <<>> THEN scan.finals ELSE <<>>
        flush == m.turnComplete /\ trim(out2) # <<>>
        in3 == IF m.turnComplete THEN <<>> ELSE in2
        out3 == IF flush THEN <<>> ELSE out2
        fin3 == IF flush THEN fin2 \o <<trim(out2)>> ELSE fin2
        preview == IF out3 # <<>>
                     THEN <<Segment(s.onTranscription, out3, FALSE)>>
                   ELSE IF in3 # <<>>
                     THEN <<Segment(s.onTranscription, in3, FALSE)>>
                   ELSE <<>>
    IN Ret([s EXCEPT !.currentInputText = in3, !.currentOutputText = out3],
           finalSegments(s.onTranscription, fin3) \o preview, FALSE)

\* handleMessage as it would be if an output delta did not clear the
\* input-echo buffer (line 166): C17 rests on that reset
handleMessageKeepsInput(s, m) ==
  IF s.onTranscription = 0 THEN Ret(s, <<>>, FALSE)
  ELSE
    LET in1 == IF m.input # <<>> THEN s.currentInputText \o m.input
                                 ELSE s.currentInputText
        scan == boundaryScan(s.currentOutputText \o m.output)
        in2 == in1
        out2 == IF m.output # <<>> THEN scan.rest ELSE s.currentOutputText
        fin2 == IF m.output # <<>> THEN scan.finals ELSE <<>>
        flush == m.turnComplete /\ trim(out2) # <<>>
        in3 == IF m.turnComplete THEN <<>> ELSE in2
        out3 == IF flush THEN <<>> ELSE out2
        fin3 == IF flush THEN fin2 \o <<trim(out2)>> ELSE fin2
        preview == IF trim(out3) # <<>>
                     THEN <<Segment(s.onTranscription, out3, FALSE)>>
                   ELSE IF trim(in3) # <<>>
                     THEN <<Segment(s.onTranscription, in3, FALSE)>>
                   ELSE <<>>
    IN Ret([s EXCEPT !.currentInputText = in3, !.currentOutputText = out3],
           finalSegments(s.onTranscription, fin3) \o preview, FALSE)

\* handleMessage as it would be if the turn-complete flush fell back on the
\* input-echo buffer when the output buffer is blank: C18 rests on the
\* flush reading the output buffer only (lines 191-192)
handleMessageFlushesInput(s, m) ==
  IF s.onTranscription = 0 THEN Ret(s, <<>>, FALSE)
  ELSE
    LET in1 == IF m.input # <<>> THEN s.currentInputText \o m.input
                                 ELSE s.currentInputText
        scan == boundaryScan(s.currentOutputText \o m.output)
        in2 == IF m.output # <<>> THEN <<>> ELSE in1
        out2 == IF m.output # <<>> THEN scan.rest ELSE s.currentOutputText
        fin2 == IF m.output # <<>> THEN scan.finals ELSE <<>>
        flush == m.turnComplete /\ trim(out2) # <<>>
        in3 == IF m.turnComplete THEN <<>> ELSE in2
        out3 == IF flush THEN <<>> ELSE out2
        fin3 == IF flush THEN fin2 \o <<trim(out2)>>
                ELSE IF m.turnComplete /\ trim(in2) # <<>> THEN fin2 \o <<trim(in2)>>
                ELSE fin2
        preview == IF trim(out3) # <<>>
                     THEN <<Segment(s.onTranscription, out3, FALSE)>>
                   ELSE IF trim(in3) # <<>>
                     THEN <<Segment(s.onTranscription, in3, FALSE)>>
                   ELSE <<>>
    IN Ret([s EXCEPT !.currentInputText = in3, !.currentOutputText = out3],
           finalSegments(s.onTranscription, fin3) \o preview, FALSE)

\* handleMessage
handleMessage(s, m) ==
  IF s.onTranscription = 0 THEN Ret(s, <<>>, FALSE)
  ELSE
    LET in1 == IF m.input # <<>> THEN s.currentInputText \o m.input
                                 ELSE s.currentInputText
        scan == boundaryScan(s.currentOutputText \o m.output)
        in2 == IF m.output # <<>> THEN <<>> ELSE in1
        out2 == IF m.output # <<>> THEN scan.rest ELSE s.currentOutputText
        fin2 == IF m.output # <<>> THEN scan.finals ELSE <<>>
        flush == m.turnComplete /\ trim(out2) # <<>>
        in3 == IF m.turnComplete THEN <<>> ELSE in2
        out3 == IF flush THEN <<>> ELSE out2
        fin3 == IF flush THEN fin2 \o <<trim(out2)>> ELSE fin2
        preview == IF trim(out3) # <<>>
                     THEN <<Segment(s.onTranscription, out3, FALSE)>>
                   ELSE IF trim(in3) # <<>>
                     THEN <<Segment(s.onTranscription, in3, FALSE)>>
                   ELSE <<>>
    IN Ret([s EXCEPT !.currentInputText = in3, !.currentOutputText = out3],
           finalSegments(s.onTranscription, fin3) \o preview, FALSE)

\* ---------------------------------------------------------------- transport callbacks
\* onerror as it would be if it reported without testing isConnected
\* (line 63): C11 rests on that test
onerrorUnguarded(s) ==
  LET d == disconnect(s)
  IN Ret(d.s,
         (IF s.onError # 0 THEN <<ErrorCall(s.onError, "interrupted")>> ELSE <<>>) \o d.out,
         TRUE)

\* onerror of a channel
onerror(s) ==
  IF s.isConnected
    THEN handleRuntimeError(s, "interrupted")
    ELSE Ret(s, <<>>, FALSE)

\* onclose as it would be without the reset of isConnected (line 70): C19
\* rests on that reset
oncloseKeepsConnected(s, code) ==
  IF s.isConnected /\ code # NormalClose
    THEN handleRuntimeError(s, "closed")
    ELSE Ret(s, <<>>, FALSE)

\* onclose of a channel
onclose(s, code) ==
  LET wasConnected == s.isConnected
      s1 == [s EXCEPT !.isConnected = FALSE]
  IN IF wasConnected /\ code # NormalClose
       THEN handleRuntimeError(s1, "closed")
       ELSE Ret(s1, <<>>, FALSE)

\* ---------------------------------------------------------------- inbound messages
\* inputTranscription.text deltas a message may carry (<<>>: none)
InputDeltas == {<<>>, <<"i">>}
\* outputTranscription.text deltas a message may carry (<<>>: none)
OutputDeltas == {<<>>, <<"a">>, <<".">>, <<" ">>}
\* LiveServerMessage.serverContent
Messages == [input : InputDeltas, output : OutputDeltas, turnComplete : BOOLEAN]
\* a message that carries nothing
EmptyMessage == [input |-> <<>>, output |-> <<>>, turnComplete |-> FALSE]

\* ---------------------------------------------------------------- SessionView
\* the SessionView instances the App mounts, one after the other
MaxViews == 2
Views == 1..MaxViews
\* a SessionView before its mount: its state, and the service its mount
\* effect constructs
NewView ==
  [mount |-> "unborn", s |-> NewService, pc |-> "idle", chan |-> "none",
   isRecording |-> FALSE, toggling |-> FALSE, status |-> "DISCONNECTED"]

\* ---------------------------------------------------------------- state
VARIABLES
  svc,        \* the fields of the GeminiLiveService instance
  apc,        \* per attempt: where its connect() call stands
  chan,       \* per attempt: the channel ai.live.connect opened for it
  resuming,   \* attempts whose startAudioStreaming awaits audioContext.resume()
  cancelled,  \* attempts during or after which disconnect() was invoked
  quiet,      \* disconnect() was invoked and no connect() started an attempt since
  fired,      \* the callbacks the last step invoked, in order
  lastOp,     \* the last step: the operation, whether its attempt had been
              \* cancelled before, whether it started an attempt, the close
              \* code, whether it is a disconnect() right after a disconnect()
  msg,        \* SpecSeg: the message the last onmessage step handled
  views,      \* SpecApp: per SessionView, its state and the fields and pending
              \* connect() of its GeminiLiveService (empty in the other specifications)
  failure,    \* SpecApp: the cause of the setup failure the last step delivered
  pcm,        \* SpecPcm: a capture buffer and what float32ToInt16 made of it
  rec,        \* SpecRec: the stored sessions, the sessions of the App and the
              \* SessionView of the session that is recorded
  audio       \* SpecAudio: the audio contexts, the capture pumps and their frames

vars == <<svc, apc, chan, resuming, cancelled, quiet, fired, lastOp, msg, views, failure, pcm, rec, audio>>

\* a step of the caller
Call(op, started, again) ==
  [op |-> op, stale |-> FALSE, started |-> started, code |-> 0, again |-> again]

\* a step of the transport for attempt a
Event(op, a, code) ==
  [op |-> op, stale |-> a \in cancelled, started |-> FALSE, code |-> code, again |-> FALSE]

begun == {a \in Attempts : apc[a] # "idle"}

\* the bookkeeping every step shares: r is what the method left behind,
\* started the attempts the step began
Record(r, started) ==
  /\ svc' = r.s
  /\ fired' = r.out
  /\ cancelled' = IF r.disc THEN cancelled \cup begun \cup started ELSE cancelled
  /\ quiet' = IF started # {} THEN r.disc ELSE (quiet \/ r.disc)
  /\ UNCHANGED <<msg, views, failure, pcm, rec, audio>>

Init ==
  /\ svc = NewService
  /\ apc = [a \in Attempts |-> "idle"]
  /\ chan = [a \in Attempts |-> "none"]
  /\ resuming = {}
  /\ cancelled = {}
  /\ quiet = FALSE
  /\ fired = <<>>
  /\ lastOp = Call("init", FALSE, FALSE)
  /\ msg = EmptyMessage
  /\ views = <<>>
  /\ failure = "none"
  /\ pcm = <<>>
  /\ rec = <<>>
  /\ audio = <<>>

\* ---------------------------------------------------------------- caller
\* the caller invokes connect(); the call runs to its first await
Connect ==
  \E throws \in {FALSE, TRUE} :
    IF svc.isConnected
      THEN /\ Record(connect(svc, 0, throws), {})
           /\ lastOp' = Call("connect", FALSE, FALSE)
           /\ UNCHANGED <<apc, chan, resuming>>
      ELSE \E a \in Attempts :
           /\ apc[a] = "idle"
           /\ \A b \in Attempts : b < a => apc[b] # "idle"
           /\ Record(connect(svc, a, throws), {a})
           /\ apc' = [apc EXCEPT ![a] = IF throws THEN "settled" ELSE "awaitMic"]
           /\ lastOp' = Call("connect", TRUE, FALSE)
           /\ UNCHANGED <<chan, resuming>>

\* the caller invokes disconnect()
Disconnect ==
  /\ Record(disconnect(svc), {})
  /\ lastOp' = Call("disconnect", FALSE, lastOp.op = "disconnect")
  /\ UNCHANGED <<apc, chan, resuming>>

\* ---------------------------------------------------------------- connect() resumed
\* getUserMedia resolves: the stream is stored and ai.live.connect opens a channel
GetUserMediaResolve(a) ==
  /\ apc[a] = "awaitMic"
  /\ Record(Ret([svc EXCEPT !.mediaStream = 1], <<>>, FALSE), {})
  /\ apc' = [apc EXCEPT ![a] = "awaitOpen"]
  /\ chan' = [chan EXCEPT ![a] = "connecting"]
  /\ lastOp' = Event("getUserMediaResolve", a, 0)
  /\ UNCHANGED resuming

\* getUserMedia rejects (permission denied, no device): the catch block runs
GetUserMediaReject(a) ==
  /\ apc[a] = "awaitMic"
  /\ Record(connectCatch(svc, "microphone"), {})
  /\ apc' = [apc EXCEPT ![a] = "settled"]
  /\ lastOp' = Event("getUserMediaReject", a, 0)
  /\ UNCHANGED <<chan, resuming>>

\* the promise of ai.live.connect resolves, after the channel opened
SessionResolve(a) ==
  /\ apc[a] = "awaitOpen"
  /\ chan[a] = "open"
  /\ Record(Ret([svc EXCEPT !.session = 1], <<>>, FALSE), {})
  /\ apc' = [apc EXCEPT ![a] = "settled"]
  /\ lastOp' = Event("sessionResolve", a, 0)
  /\ UNCHANGED <<chan, resuming>>

\* the promise of ai.live.connect rejects, the channel not having opened
SessionReject(a) ==
  /\ apc[a] = "awaitOpen"
  /\ chan[a] \in {"connecting", "closed"}
  /\ Record(connectCatch(svc, "network"), {})
  /\ apc' = [apc EXCEPT ![a] = "settled"]
  /\ chan' = [chan EXCEPT ![a] = "closed"]
  /\ lastOp' = Event("sessionReject", a, 0)
  /\ UNCHANGED resuming

\* ---------------------------------------------------------------- transport events
\* onopen of the channel of attempt a; suspended is audioContext.state
OnOpen(a) ==
  /\ chan[a] = "connecting"
  /\ chan' = [chan EXCEPT ![a] = "open"]
  /\ LET s1 == [svc EXCEPT !.isConnected = TRUE]
     IN \E suspended \in BOOLEAN :
          IF s1.audioContext = 0 \/ s1.mediaStream = 0
            THEN /\ ~suspended
                 /\ Record(Ret(s1, <<>>, FALSE), {})
                 /\ UNCHANGED resuming
          ELSE IF suspended
            THEN /\ Record(Ret(s1, <<>>, FALSE), {})
                 /\ resuming' = resuming \cup {a}
          ELSE /\ Record(Ret(createAudioGraph(s1), <<>>, FALSE), {})
               /\ UNCHANGED resuming
  /\ lastOp' = Event("onopen", a, 0)
  /\ UNCHANGED apc

\* audioContext.resume() settles and startAudioStreaming goes on
ResumeDone(a) ==
  /\ a \in resuming
  /\ resuming' = resuming \ {a}
  /\ Record(Ret(createAudioGraph(svc), <<>>, FALSE), {})
  /\ lastOp' = Event("resumeDone", a, 0)
  /\ UNCHANGED <<apc, chan>>

\* onmessage of the channel of attempt a
OnMessage(a) ==
  /\ chan[a] = "open"
  /\ \E m \in Messages :
       /\ Len(svc.currentInputText) + Len(m.input) <= MaxBuf
       /\ Len(svc.currentOutputText) + Len(m.output) <= MaxBuf
       /\ Record(handleMessage(svc, m), {})
  /\ lastOp' = Event("onmessage", a, 0)
  /\ UNCHANGED <<apc, chan, resuming>>

\* onerror of the channel of attempt a
OnError(a) ==
  /\ chan[a] \in {"connecting", "open"}
  /\ Record(onerror(svc), {})
  /\ lastOp' = Event("onerror", a, 0)
  /\ UNCHANGED <<apc, chan, resuming>>

\* onclose of the channel of attempt a
OnClose(a) ==
  /\ chan[a] \in {"connecting", "open"}
  /\ chan' = [chan EXCEPT ![a] = "closed"]
  /\ \E code \in CloseCodes :
       /\ Record(onclose(svc, code), {})
       /\ lastOp' = Event("onclose", a, code)
  /\ UNCHANGED <<apc, resuming>>

Next ==
  \/ Disconnect
  \/ Connect
  \/ \E a \in Attempts : GetUserMediaResolve(a)
  \/ \E a \in Attempts : GetUserMediaReject(a)
  \/ \E a \in Attempts : SessionResolve(a)
  \/ \E a \in Attempts : SessionReject(a)
  \/ \E a \in Attempts : OnOpen(a)
  \/ \E a \in Attempts : ResumeDone(a)
  \/ \E a \in Attempts : OnMessage(a)
  \/ \E a \in Attempts : OnError(a)
  \/ \E a \in Attempts : OnClose(a)

Spec == Init /\ [][Next]_vars

\* ---------------------------------------------------------------- segmentation
\* The segmentation of the output transcription, on a session that is
\* Connected: the messages carry output deltas of up to MaxDelta characters
\* and the buffers hold up to MaxText characters.
MaxDelta == 3
MaxText == 5

\* the characters of an output delta: a letter, a terminal mark, a blank
Chars == {"a", ".", " "}
Texts(n) == UNION {[1..k -> Chars] : k \in 0..n}
SegMessages == [input : InputDeltas, output : Texts(MaxDelta), turnComplete : BOOLEAN]

\* the state after connect(), the microphone grant, onopen and the
\* resolution of the session promise of the first attempt
InitSeg ==
  /\ svc = [NewService EXCEPT !.isConnected = TRUE, !.onTranscription = 1, !.onError = 1,
                              !.audioContext = 1, !.mediaStream = 1, !.source = 1,
                              !.processor = 1, !.session = 1]
  /\ apc = [a \in Attempts |-> IF a = 1 THEN "settled" ELSE "idle"]
  /\ chan = [a \in Attempts |-> IF a = 1 THEN "open" ELSE "none"]
  /\ resuming = {}
  /\ cancelled = {}
  /\ quiet = FALSE
  /\ fired = <<>>
  /\ lastOp = Event("sessionResolve", 1, 0)
  /\ msg = EmptyMessage
  /\ views = <<>>
  /\ failure = "none"
  /\ pcm = <<>>
  /\ rec = <<>>
  /\ audio = <<>>

\* onmessage of the open channel
SegMessage(a) ==
  /\ chan[a] = "open"
  /\ \E m \in SegMessages :
       /\ Len(svc.currentInputText) + Len(m.input) <= MaxText
       /\ Len(svc.currentOutputText) + Len(m.output) <= MaxText
       /\ LET r == handleMessage(svc, m)
          IN svc' = r.s /\ fired' = r.out
       /\ msg' = m
  /\ lastOp' = Event("onmessage", a, 0)
  /\ UNCHANGED <<apc, chan, resuming, cancelled, quiet, views, failure, pcm, rec, audio>>

NextSeg ==
  \/ Disconnect
  \/ \E a \in Attempts : SegMessage(a)

SpecSeg == InitSeg /\ [][NextSeg]_vars

\* ---------------------------------------------------------------- vocabulary of the claims
\* ConnectionState of the session, read off the fields and the pending attempts
ConnState ==
  IF svc.isConnected THEN "Connected"
  ELSE IF \E a \in Attempts : apc[a] \in {"awaitMic", "awaitOpen"} /\ a \notin cancelled
    THEN "Connecting"
  ELSE "Disconnected"

nErrors(out) == Cardinality({i \in 1..Len(out) : out[i].kind = "error"})

\* events of a connection attempt: its channel's message, error and close
\* events and the settling of its pending setup
AttemptEvents ==
  {"onmessage", "onerror", "onclose",
   "getUserMediaResolve", "getUserMediaReject", "sessionResolve", "sessionReject"}

\* a setup failure of an attempt: a rejected await, or a throw before the first await
SetupFailures == {"getUserMediaReject", "sessionReject"}

NoResourceHeld ==
  /\ svc.mediaStream = 0
  /\ svc.processor = 0
  /\ svc.source = 0
  /\ svc.audioContext = 0
  /\ svc.session = 0

\* ---------------------------------------------------------------- C1
\* C1: an event of an attempt that arrives after disconnect() was invoked
\* (during or after that attempt) invokes no callback, leaves isConnected as
\* it was and runs no teardown.
C1_StaleEventSuppressed ==
  [][(lastOp'.op \in AttemptEvents /\ lastOp'.stale)
       => /\ fired' = <<>>
          /\ svc'.isConnected = svc.isConnected
          /\ cancelled' = cancelled]_vars

\* ---------------------------------------------------------------- C2
\* C2: disconnect() invoked with a segment callback installed and non-blank
\* output text delivers exactly one final segment, the trimmed buffer.
C2_ShutdownFlush ==
  [][(lastOp'.op = "disconnect" /\ svc.onTranscription # 0
        /\ trim(svc.currentOutputText) # <<>>)
       => fired' = <<Segment(svc.onTranscription, trim(svc.currentOutputText), TRUE)>>]_vars

\* ---------------------------------------------------------------- C3
\* C3: a close event with a code other than 1000 that arrives while Connected
\* invokes the error callback exactly once and tears the session down.
C3_AbnormalCloseReported ==
  [][(lastOp'.op = "onclose" /\ lastOp'.code # NormalClose /\ svc.isConnected)
       => /\ nErrors(fired') = 1
          /\ svc' = NewService]_vars

\* ---------------------------------------------------------------- C4
\* C4: from the return of disconnect() until a connect() call starts the next
\* attempt, no step invokes a segment or an error callback.
C4_QuietAfterDisconnect ==
  [][(quiet /\ ~(lastOp'.op = "connect" /\ lastOp'.started)) => fired' = <<>>]_vars

\* a message is delivered on a channel whose attempt was disconnected, and
\* nothing is invoked
C4_Witness ==
  /\ quiet
  /\ lastOp.op = "onmessage"
  /\ lastOp.stale
  /\ fired = <<>>

\* ---------------------------------------------------------------- C5
\* C5: a connect() call made after disconnect() returned (and before any
\* other connect()) starts a fresh attempt.
C5_ConnectAfterDisconnectStarts ==
  (lastOp.op = "connect" /\ quiet) => lastOp.started

\* ---------------------------------------------------------------- C6
\* C6: from the return of disconnect() until the next attempt starts, the
\* session holds no microphone stream, processor, source, audio context or
\* channel handle.
C6_ReleasedAfterDisconnect ==
  quiet => NoResourceHeld

\* ---------------------------------------------------------------- C7
\* C7: at most one channel opened by the instance is open at any time.
C7_AtMostOneOpenChannel ==
  Cardinality({a \in Attempts : chan[a] = "open"}) <= 1

\* ---------------------------------------------------------------- C8
\* C8: connect() called while Connected changes no field, starts no attempt,
\* opens no channel and invokes nothing.
C8_ConnectWhileConnectedNoop ==
  [][(lastOp'.op = "connect" /\ svc.isConnected)
       => /\ svc' = svc
          /\ fired' = <<>>
          /\ ~lastOp'.started
          /\ UNCHANGED <<apc, chan, resuming>>]_vars

\* connect() was called on a connected session with callbacks installed and
\* pending output text, and started nothing
C8_Witness ==
  /\ lastOp.op = "connect"
  /\ ~lastOp.started
  /\ svc.isConnected
  /\ svc.onTranscription # 0
  /\ svc.currentOutputText # <<>>

C10_SetupFailureReported ==
  [][(\/ lastOp'.op \in SetupFailures /\ ~lastOp'.stale /\ ~svc.isConnected
      \/ lastOp'.op = "connect" /\ lastOp'.started /\ quiet')
       => /\ Len(fired') = 1
          /\ nErrors(fired') = 1
          /\ svc' = NewService]_vars

\* getUserMedia was rejected for a live attempt: one error, session torn down
C10_Witness ==
  /\ lastOp.op = "getUserMediaReject"
  /\ ~lastOp.stale
  /\ nErrors(fired) = 1
  /\ svc = NewService

\* C11: a transport error before the session is Connected fires no callback
\* and changes nothing; a step invokes the error callback at most once, and
\* when it does it leaves the callback removed and the session quiet, and
\* only a connect() call that starts an attempt installs a callback: so the
\* error callback is invoked at most once between one started connect() and
\* the next, whatever error, close and setup-failure events arrive
C11_ErrorAtMostOnce ==
  [][/\ (lastOp'.op = "onerror" /\ ~svc.isConnected)
          => (fired' = <<>> /\ svc' = svc)
     /\ nErrors(fired') <= 1
     /\ nErrors(fired') = 1 => (svc'.onError = 0 /\ quiet')
     /\ svc'.onError \notin {0, svc.onError}
          => (lastOp'.op = "connect" /\ lastOp'.started)]_vars

\* a transport error reached a live attempt that was not yet Connected and
\* its error callback, still installed, was not invoked
C11_Witness ==
  /\ lastOp.op = "onerror"
  /\ ~lastOp.stale
  /\ ~svc.isConnected
  /\ svc.onError # 0
  /\ fired = <<>>

\* C19: a close with the normal code while the session is Connected leaves
\* it not Connected and invokes no callback
C19_NormalCloseSilent ==
  [][(lastOp'.op = "onclose" /\ lastOp'.code = NormalClose /\ svc.isConnected)
       => (~svc'.isConnected /\ fired' = <<>> /\ ConnState' # "Connected")]_vars

\* the only attempt ever made was Connected (its audio graph exists) and its
\* channel closed normally: the session is Disconnected, nothing was fired
C19_Witness ==
  /\ lastOp.op = "onclose"
  /\ lastOp.code = NormalClose
  /\ \A a \in Attempts : a # 1 => apc[a] = "idle"
  /\ svc.processor = 1
  /\ svc.onError # 0
  /\ ConnState = "Disconnected"
  /\ fired = <<>>

\* ---------------------------------------------------------------- vocabulary of the segmentation claims
isFinalCall(c) == c.kind = "segment" /\ c.isFinal
isPreviewCall(c) == c.kind = "segment" /\ ~c.isFinal
textsOf(calls) == [i \in 1..Len(calls) |-> calls[i].text]
\* the texts of the final segments, and of the previews, a step emitted
finalTexts(out) == textsOf(SelectSeq(out, isFinalCall))
previewTexts(out) == textsOf(SelectSeq(out, isPreviewCall))
\* positions of the terminal marks of a text
Marks(t) == {i \in 1..Len(t) : t[i] \in Terminal}
\* positions of the terminal marks that are followed by whitespace
Boundaries(t) == {i \in 1..(Len(t) - 1) : t[i] \in Terminal /\ t[i + 1] \in Whitespace}
\* an onmessage step whose handler is active (a segment callback is installed)
Handled == lastOp'.op = "onmessage" /\ svc.onTranscription # 0
\* the output buffer with the delta of the handled message appended
Appended == svc.currentOutputText \o msg'.output

\* C13 as claimed: a sentence split across two deltas ("a" then ".") gives
\* no final segment after the first delta, where the preview is the
\* accumulated text, and exactly one final segment carrying the whole
\* sentence after the second
C13_SplitSentenceFinalized ==
  [][(Handled /\ msg'.output # <<>> /\ ~msg'.turnComplete)
       => /\ Marks(Appended) = {}
               => /\ finalTexts(fired') = <<>>
                  /\ trim(Appended) # <<>> => previewTexts(fired') = <<Appended>>
          /\ (svc.currentOutputText # <<>> /\ Marks(Appended) = {Len(Appended)})
               => finalTexts(fired') = <<trim(Appended)>>]_vars

\* C13 amended: no final segment after the first delta, and none after the
\* second either, which ends the sentence at the end of the buffer: the
\* preview then is the whole sentence. The one final segment carrying the
\* whole sentence is emitted by the message whose delta puts whitespace
\* after the mark
C13_SplitSentenceDelayed ==
  [][(Handled /\ msg'.output # <<>> /\ ~msg'.turnComplete)
       => /\ Boundaries(Appended) = {}
               => /\ finalTexts(fired') = <<>>
                  /\ svc'.currentOutputText = Appended
                  /\ trim(Appended) # <<>> => previewTexts(fired') = <<Appended>>
          /\ Boundaries(Appended) = {Len(svc.currentOutputText)}
               => finalTexts(fired') = <<trim(svc.currentOutputText)>>]_vars

\* the delta "." completed the sentence "a." at the end of the buffer: no
\* final segment, the preview is the whole sentence
C13_Witness ==
  /\ lastOp.op = "onmessage"
  /\ msg.output = <<".">>
  /\ ~msg.turnComplete
  /\ svc.currentOutputText = <<"a", ".">>
  /\ finalTexts(fired) = <<>>
  /\ previewTexts(fired) = << <<"a", ".">> >>

\* the sentences of a text, read off the positions of its boundaries: the
\* j-th is the trimmed text after the previous boundary's mark up to and
\* including the j-th boundary's mark
nthBoundary(t, j) ==
  CHOOSE p \in Boundaries(t) : Cardinality({q \in Boundaries(t) : q <= p}) = j
Sentences(t) ==
  [j \in 1..Cardinality(Boundaries(t)) |->
     trim(SubSeq(t, IF j = 1 THEN 1 ELSE nthBoundary(t, j - 1) + 1, nthBoundary(t, j)))]
\* the text after the whitespace that follows the last boundary
Remainder(t) ==
  IF Boundaries(t) = {} THEN t
  ELSE TrimLeft(SubSeq(t, nthBoundary(t, Cardinality(Boundaries(t))) + 1, Len(t)))

\* C14: a message whose output delta makes the buffer hold k marks followed
\* by whitespace emits the k sentences as final segments, in order, each
\* the trimmed text up to and including its mark (a turn-complete marker on
\* the same message adds the flush of a non-blank remainder after them);
\* the buffer is left as the text after the last matched whitespace, with
\* no boundary in it, and an empty buffer gives no preview
C14_MultiSentence ==
  [][(Handled /\ msg'.output # <<>>)
       => LET rest == Remainder(Appended)
          IN /\ finalTexts(fired') =
                  Sentences(Appended) \o
                    (IF msg'.turnComplete /\ trim(rest) # <<>> THEN <<trim(rest)>> ELSE <<>>)
             /\ ~msg'.turnComplete
                  => /\ Len(finalTexts(fired')) = Cardinality(Boundaries(Appended))
                     /\ svc'.currentOutputText = rest
             /\ Boundaries(svc'.currentOutputText) = {}
             /\ svc'.currentOutputText = <<>> => previewTexts(fired') = <<>>]_vars

\* one message completed two sentences: two final segments, an empty
\* buffer, no preview
C14_Witness ==
  /\ lastOp.op = "onmessage"
  /\ msg.output # <<>>
  /\ ~msg.turnComplete
  /\ Len(finalTexts(fired)) = 2
  /\ svc.currentOutputText = <<>>
  /\ previewTexts(fired) = <<>>

\* the output buffer of a handled message when the turn-complete test is
\* reached: after the scan, or untouched when the message has no output delta
BeforeFlush == IF msg'.output # <<>> THEN Remainder(Appended) ELSE svc.currentOutputText

\* C15: after a message that carries the turn-complete marker both buffers
\* are empty, and if the output buffer held content before the flush, one
\* final segment with that content, trimmed, was emitted last
C15_TurnCompleteClears ==
  [][(lastOp'.op = "onmessage" /\ msg'.turnComplete)
       => /\ svc'.currentInputText = <<>>
          /\ svc'.currentOutputText = <<>>
          /\ (svc.onTranscription # 0 /\ BeforeFlush # <<>>)
               => LET f == finalTexts(fired')
                  IN f # <<>> /\ f[Len(f)] = trim(BeforeFlush)]_vars

\* every preview a step emitted comes after its final segments
PreviewLast(out) == \A i \in 1..Len(out) : isPreviewCall(out[i]) => i = Len(out)

\* C16 as claimed: a handled message emits at most one preview, after every
\* final segment of the message; its text is the output buffer if that is
\* non-empty, otherwise the input-echo buffer if that is non-empty,
\* otherwise there is no preview
C16_PreviewNonEmpty ==
  [][Handled
       => /\ PreviewLast(fired')
          /\ previewTexts(fired') =
               IF svc'.currentOutputText # <<>> THEN <<svc'.currentOutputText>>
               ELSE IF svc'.currentInputText # <<>> THEN <<svc'.currentInputText>>
               ELSE <<>>]_vars

\* C16 amended: the same with non-blank for non-empty: a buffer that holds
\* only whitespace is passed over
C16_PreviewNonBlank ==
  [][Handled
       => /\ PreviewLast(fired')
          /\ previewTexts(fired') =
               IF trim(svc'.currentOutputText) # <<>> THEN <<svc'.currentOutputText>>
               ELSE IF trim(svc'.currentInputText) # <<>> THEN <<svc'.currentInputText>>
               ELSE <<>>]_vars

\* the output buffer holds only whitespace and the input-echo buffer holds
\* text: the preview is the input-echo buffer
C16_Witness ==
  /\ lastOp.op = "onmessage"
  /\ svc.currentOutputText # <<>>
  /\ trim(svc.currentOutputText) = <<>>
  /\ svc.currentInputText # <<>>
  /\ previewTexts(fired) = <<svc.currentInputText>>

\* the characters of a text; the characters only input-echo deltas carry
chars(t) == {t[i] : i \in 1..Len(t)}
InputChars == UNION {chars(d) : d \in InputDeltas}

\* C17: after a handled message that carries an output delta the input-echo
\* buffer is empty, also when the message carried input text, and the
\* preview, if any, is the output buffer and holds no input-echo text
C17_OutputPreemptsInput ==
  [][(Handled /\ msg'.output # <<>>)
       => /\ svc'.currentInputText = <<>>
          /\ previewTexts(fired') \in {<<>>, <<svc'.currentOutputText>>}
          /\ \A i \in 1..Len(previewTexts(fired')) :
               chars(previewTexts(fired')[i]) \cap InputChars = {}]_vars

\* a message carried both an input delta and an output delta: the
\* input-echo buffer is empty and the preview is the output buffer
C17_Witness ==
  /\ lastOp.op = "onmessage"
  /\ msg.input # <<>>
  /\ msg.output # <<>>
  /\ svc.currentInputText = <<>>
  /\ previewTexts(fired) = <<svc.currentOutputText>>

\* C18: no final segment of any step (boundary scan, turn-complete flush,
\* shutdown flush) holds input-echo text, and neither does the output
\* buffer the flushes read: input-echo text appears in previews only
C18_InputNeverFinal ==
  [][/\ \A i \in 1..Len(finalTexts(fired')) :
          chars(finalTexts(fired')[i]) \cap InputChars = {}
     /\ chars(svc'.currentOutputText) \cap InputChars = {}]_vars

\* a message that carried input-echo text also made the handler emit a
\* final segment
C18_Witness ==
  /\ lastOp.op = "onmessage"
  /\ msg.input # <<>>
  /\ finalTexts(fired) # <<>>

\* ---------------------------------------------------------------- the App and its SessionViews
\* The App renders one SessionView at a time, keyed by the selected session:
\* selecting or creating another session unmounts the view and mounts a
\* fresh one, deleting the selected session unmounts it. Each view owns one
\* GeminiLiveService; the model follows one connect() at a time per service
\* (a view starts the next one when the channel of the previous one is gone).

\* String.prototype.includes
Includes(t, p) == \E i \in 1..(Len(t) - Len(p) + 1) : SubSeq(t, i, i + Len(p) - 1) = p

\* the message the catch block of connect() reports for an error message
errorMessage(message) ==
  IF message # "" /\ (Includes(message, "404") \/ Includes(message, "not found"))
    THEN "API Key Error: Requested model or project not found. You likely need a paid billing account and a valid API key."
  ELSE IF message # "" /\ (Includes(message, "403") \/ Includes(message, "permission"))
    THEN "API Key Error: Access denied. Ensure your API key has the correct permissions for the Live API."
  ELSE IF message # "" THEN message
  ELSE "Network error: Unable to establish connection."

\* handleError of SessionView: whether it asks for the API key again
promptsForKey(text) ==
  Includes(text, "API Key Error") \/ Includes(text, "Requested entity was not found")

\* handleError of SessionView: the state it sets
handleError(w) == [w EXCEPT !.status = "ERROR", !.isRecording = FALSE]

\* rejections of getUserMedia: the user or the platform denies the
\* microphone (the messages of Chromium and of WebKit), or there is none
MicrophoneFailures ==
  {[cause |-> "microphoneDenied", message |-> "Permission denied"],
   [cause |-> "microphoneDenied",
    message |-> "The request is not allowed by the user agent or the platform in the current context, possibly because the user denied permission."],
   [cause |-> "microphoneMissing", message |-> "Requested device not found"]}

\* rejections of the session promise: the service refuses the request as
\* unauthorized or not found, or the network fails
ChannelFailures ==
  {[cause |-> "remoteRejected", message |-> "403 The caller does not have permission"],
   [cause |-> "remoteRejected", message |-> "404 Requested entity was not found."],
   [cause |-> "network", message |-> "Failed to fetch"],
   [cause |-> "network", message |-> ""]}

\* a view takes what a method of its service left behind: the fields, and
\* the error callback (handleError of this view) if the method invoked it
Deliver(w, r) ==
  LET w1 == [w EXCEPT !.s = r.s]
  IN IF nErrors(r.out) > 0 THEN handleError(w1) ELSE w1

\* the cleanup of the mount effect: disconnect()
Unmount(w) ==
  IF w.mount = "mounted" THEN [w EXCEPT !.mount = "unmounted", !.s = disconnect(w.s).s]
  ELSE w

\* what the cleanup of the mounted view fires
unmountFires ==
  IF \E v \in Views : views[v].mount = "mounted"
    THEN disconnect(views[CHOOSE v \in Views : views[v].mount = "mounted"].s).out
    ELSE <<>>

\* the bookkeeping every step of the App shares
AppStep(op, out, cause) ==
  /\ fired' = out
  /\ lastOp' = Call(op, FALSE, FALSE)
  /\ failure' = cause
  /\ UNCHANGED <<svc, apc, chan, resuming, cancelled, quiet, msg, pcm, rec, audio>>

\* handleSelectSession, handleCreateSession: another session is selected,
\* the view of the previous one unmounts and a new view mounts
SelectSession ==
  \E n \in Views :
    /\ views[n].mount = "unborn"
    /\ \A k \in Views : k < n => views[k].mount # "unborn"
    /\ views' = [v \in Views |-> IF v = n THEN [views[v] EXCEPT !.mount = "mounted"]
                                 ELSE Unmount(views[v])]
    /\ AppStep("select", unmountFires, "none")

\* handleDeleteSession of the selected session: its view unmounts
DeleteSelected ==
  /\ \E v \in Views : views[v].mount = "mounted"
  /\ views' = [v \in Views |-> Unmount(views[v])]
  /\ AppStep("delete", unmountFires, "none")

\* toggleRecording of the mounted view, up to the first suspension of connect()
ToggleRecording(v) ==
  /\ views[v].mount = "mounted"
  /\ IF views[v].isRecording
       THEN LET d == disconnect(views[v].s)
            IN /\ views' = [views EXCEPT ![v] = [@ EXCEPT !.s = d.s, !.isRecording = FALSE,
                                                          !.status = "DISCONNECTED"]]
               /\ AppStep("stop", d.out, "none")
       ELSE /\ ~views[v].toggling
            /\ views[v].pc \in {"idle", "settled"}
            /\ views[v].chan \in {"none", "closed"}
            /\ \E throws \in BOOLEAN :
                 LET r == connect(views[v].s, v, throws)
                     w == [views[v] EXCEPT !.status = "CONNECTING", !.toggling = TRUE,
                                           !.pc = IF views[v].s.isConnected \/ throws
                                                    THEN "settled" ELSE "awaitMic"]
                 IN /\ views' = [views EXCEPT ![v] = Deliver(w, r)]
                    /\ AppStep("start", r.out,
                               IF throws /\ ~views[v].s.isConnected THEN "setup" ELSE "none")

\* toggleRecording after its await of connect(): connect() never rejects
ConnectReturns(v) ==
  /\ views[v].toggling
  /\ views[v].pc = "settled"
  /\ views' = [views EXCEPT ![v] =
                 IF @.mount = "mounted"
                   THEN [@ EXCEPT !.toggling = FALSE, !.isRecording = TRUE, !.status = "CONNECTED"]
                   ELSE [@ EXCEPT !.toggling = FALSE]]
  /\ AppStep("connectReturns", <<>>, "none")

ViewGetUserMediaResolve(v) ==
  /\ views[v].pc = "awaitMic"
  /\ views' = [views EXCEPT ![v] = [@ EXCEPT !.s = [@ EXCEPT !.mediaStream = 1],
                                            !.pc = "awaitOpen", !.chan = "connecting"]]
  /\ AppStep("getUserMediaResolve", <<>>, "none")

ViewGetUserMediaReject(v) ==
  /\ views[v].pc = "awaitMic"
  /\ \E e \in MicrophoneFailures :
       LET r == connectCatch(views[v].s, errorMessage(e.message))
       IN /\ views' = [views EXCEPT ![v] = Deliver([@ EXCEPT !.pc = "settled"], r)]
          /\ AppStep("getUserMediaReject", r.out, e.cause)

ViewSessionResolve(v) ==
  /\ views[v].pc = "awaitOpen"
  /\ views[v].chan = "open"
  /\ views' = [views EXCEPT ![v] = [@ EXCEPT !.s = [@ EXCEPT !.session = 1], !.pc = "settled"]]
  /\ AppStep("sessionResolve", <<>>, "none")

ViewSessionReject(v) ==
  /\ views[v].pc = "awaitOpen"
  /\ views[v].chan \in {"connecting", "closed"}
  /\ \E e \in ChannelFailures :
       LET r == connectCatch(views[v].s, errorMessage(e.message))
       IN /\ views' = [views EXCEPT ![v] =
                         Deliver([@ EXCEPT !.pc = "settled", !.chan = "closed"], r)]
          /\ AppStep("sessionReject", r.out, e.cause)

ViewOnOpen(v) ==
  /\ views[v].chan = "connecting"
  /\ views' = [views EXCEPT ![v] =
                 [@ EXCEPT !.s = createAudioGraph([@ EXCEPT !.isConnected = TRUE]),
                           !.chan = "open"]]
  /\ AppStep("onopen", <<>>, "none")

ViewOnError(v) ==
  /\ views[v].chan \in {"connecting", "open"}
  /\ LET r == onerror(views[v].s)
     IN /\ views' = [views EXCEPT ![v] = Deliver(@, r)]
        /\ AppStep("onerror", r.out, "none")

ViewOnClose(v) ==
  /\ views[v].chan \in {"connecting", "open"}
  /\ \E code \in CloseCodes :
       LET r == onclose(views[v].s, code)
       IN /\ views' = [views EXCEPT ![v] = Deliver([@ EXCEPT !.chan = "closed"], r)]
          /\ AppStep("onclose", r.out, "none")

NextApp ==
  \/ SelectSession
  \/ DeleteSelected
  \/ \E v \in Views : ToggleRecording(v)
  \/ \E v \in Views : ConnectReturns(v)
  \/ \E v \in Views : ViewGetUserMediaResolve(v)
  \/ \E v \in Views : ViewGetUserMediaReject(v)
  \/ \E v \in Views : ViewSessionResolve(v)
  \/ \E v \in Views : ViewSessionReject(v)
  \/ \E v \in Views : ViewOnOpen(v)
  \/ \E v \in Views : ViewOnError(v)
  \/ \E v \in Views : ViewOnClose(v)

\* the App before any session is selected, and no service of its own
InitApp ==
  /\ svc = NewService
  /\ apc = [a \in Attempts |-> "idle"]
  /\ chan = [a \in Attempts |-> "none"]
  /\ resuming = {}
  /\ cancelled = {}
  /\ quiet = FALSE
  /\ fired = <<>>
  /\ lastOp = Call("init", FALSE, FALSE)
  /\ msg = EmptyMessage
  /\ views = [v \in Views |-> NewView]
  /\ failure = "none"
  /\ pcm = <<>>
  /\ rec = <<>>
  /\ audio = <<>>

SpecApp == InitApp /\ [][NextApp]_vars

\* the services that hold a microphone stream
HoldingMicrophone == {v \in Views : views[v].s.mediaStream # 0}

\* C12: at no time do two services hold a microphone stream
C12_MicrophoneExclusive == Cardinality(HoldingMicrophone) <= 1

isErrorCall(c) == c.kind = "error"
\* the messages of the error callbacks a step invoked
errorTexts(out) == textsOf(SelectSeq(out, isErrorCall))

\* C20: a setup failure that is reported is reported as a credential error
\* ("API Key Error", for which the view asks for the key again) exactly
\* when the remote service rejected the request as unauthorized or not
\* found: never for a microphone failure or a network failure
C20_CredentialErrorClassification ==
  (failure # "none" /\ errorTexts(fired) # <<>>)
    => /\ Includes(errorTexts(fired)[1], "API Key Error") <=> failure = "remoteRejected"
       /\ promptsForKey(errorTexts(fired)[1]) <=> failure = "remoteRejected"

\* C23: both buffers are empty when a connect() call has begun an attempt,
\* and when disconnect() has returned (from the caller, the catch block or
\* the runtime error path) they are empty and stay so until the next
\* attempt begins
C23_BuffersEmptyAtBoundaries ==
  [][((lastOp'.op = "connect" /\ lastOp'.started) \/ quiet')
       => (svc'.currentInputText = <<>> /\ svc'.currentOutputText = <<>>)]_vars

\* a connect() call began the second attempt with the buffers empty, after
\* the channel of the first closed and with no disconnect() in between (the
\* audio graph of the first attempt is still there)
C23_Witness ==
  /\ lastOp.op = "connect"
  /\ lastOp.started
  /\ ~quiet
  /\ chan[1] = "closed"
  /\ svc.processor = 1
  /\ svc.currentInputText = <<>>
  /\ svc.currentOutputText = <<>>

\* toggleRecording of view v resumes after its await of connect() and the
\* view is still mounted
ConnectCompletes(v) ==
  views[v].mount = "mounted" /\ views[v].toggling /\ ~views'[v].toggling

\* C24: when the awaited connect() completes the view shows CONNECTED and
\* recording only if its service is Connected, and after a failed attempt
\* (handleError has set ERROR) it ends in ERROR and not recording
C24_StatusAgreesWithOutcome ==
  [][\A v \in DOMAIN views :
       ConnectCompletes(v)
         => /\ (views'[v].status = "CONNECTED" /\ views'[v].isRecording)
                 => views'[v].s.isConnected
            /\ views[v].status = "ERROR"
                 => (views'[v].status = "ERROR" /\ ~views'[v].isRecording)]_vars

\* ---------------------------------------------------------------- audioUtils
\* A sample is a number k / SampleGrid, written as the integer k, with k from
\* -2 * SampleGrid to 2 * SampleGrid (values from -2 to 2), or NaN, written
\* as the integer after those; a capture buffer holds up to MaxSamples samples.
SampleGrid == 4
MaxSamples == 2
NegativeScale == 32768
PositiveScale == 32767
Int16Modulus == 65536
NaN == 2 * SampleGrid + 1
Samples == (-(2 * SampleGrid))..(2 * SampleGrid) \cup {NaN}
SampleBuffers == UNION {[1..n -> Samples] : n \in 0..MaxSamples}

\* the clamp as it would be if it were left out: C21 rests on
\* Math.max(-1, Math.min(1, x)) (line 5)
clampMissing(k) == k

\* Math.max(-1, Math.min(1, x)): NaN stays NaN
clamp(k) ==
  IF k = NaN THEN k
  ELSE IF k > SampleGrid THEN SampleGrid
  ELSE IF k < -SampleGrid THEN -SampleGrid
  ELSE k

\* the store into an Int16Array element of the number num / SampleGrid:
\* truncation towards zero, then reduction modulo 2^16 into the int16 range
toInt16(num) ==
  LET int == IF num < 0 THEN -((-num) \div SampleGrid) ELSE num \div SampleGrid
  IN ((int + Int16Modulus \div 2) % Int16Modulus) - Int16Modulus \div 2

\* one iteration of the loop: NaN < 0 is false and NaN stores as 0
quantize(k) ==
  LET s == clamp(k)
  IN IF s = NaN THEN 0
     ELSE IF s < 0 THEN toInt16(s * NegativeScale)
     ELSE toInt16(s * PositiveScale)

float32ToInt16(float32Array) ==
  [i \in 1..Len(float32Array) |-> quantize(float32Array[i])]

\* a capture buffer, not yet converted
InitPcm ==
  /\ svc = NewService
  /\ apc = [a \in Attempts |-> "idle"]
  /\ chan = [a \in Attempts |-> "none"]
  /\ resuming = {}
  /\ cancelled = {}
  /\ quiet = FALSE
  /\ fired = <<>>
  /\ lastOp = Call("init", FALSE, FALSE)
  /\ msg = EmptyMessage
  /\ views = <<>>
  /\ failure = "none"
  /\ \E b \in SampleBuffers : pcm = [input |-> b, done |-> FALSE, output |-> <<>>]
  /\ rec = <<>>
  /\ audio = <<>>

\* float32ToInt16 is applied to the buffer
Convert ==
  /\ ~pcm.done
  /\ pcm' = [pcm EXCEPT !.done = TRUE, !.output = float32ToInt16(pcm.input)]
  /\ lastOp' = Call("float32ToInt16", FALSE, FALSE)
  /\ UNCHANGED <<svc, apc, chan, resuming, cancelled, quiet, fired, msg, views, failure, rec, audio>>

NextPcm == Convert

SpecPcm == InitPcm /\ [][NextPcm]_vars

\* C21: the output has the length of the input and each element lies in
\* [-32768, 32767]; 0 gives 0, 1 and anything above give 32767, -1 and
\* anything below give -32768; a negative sample s gives s * 32768 and a
\* non-negative one s * 32767, with the fraction dropped
C21_Quantization ==
  pcm.done
    => /\ Len(pcm.output) = Len(pcm.input)
       /\ \A i \in 1..Len(pcm.input) :
            LET k == pcm.input[i]
                y == pcm.output[i]
            IN /\ y \in (-NegativeScale)..PositiveScale
               /\ k # NaN
                    => /\ k = 0 => y = 0
                       /\ k >= SampleGrid => y = PositiveScale
                       /\ k <= -SampleGrid => y = -NegativeScale
                       /\ (-SampleGrid < k /\ k < 0)
                            => (y * SampleGrid >= k * NegativeScale
                                /\ (y - 1) * SampleGrid < k * NegativeScale)
                       /\ (0 <= k /\ k < SampleGrid)
                            => (y * SampleGrid <= k * PositiveScale
                                /\ (y + 1) * SampleGrid > k * PositiveScale)

\* a converted buffer that holds a sample above 1 and a sample below -1
C21_Witness ==
  /\ pcm.done
  /\ \E i, j \in 1..Len(pcm.input) :
       /\ pcm.input[i] # NaN /\ pcm.input[i] > SampleGrid /\ pcm.output[i] = PositiveScale
       /\ pcm.input[j] # NaN /\ pcm.input[j] < -SampleGrid /\ pcm.output[j] = -NegativeScale

\* ---------------------------------------------------------------- a recording and its record
\* One recording of the selected session, from Connected until it ends: the
\* App with its sessions and the storage, the SessionView of the selected
\* session and its service. The recording receives up to MaxStream
\* characters of output transcription; the App creates up to MaxSessions
\* sessions. A Session is its id and its segments, a TranscriptSegment its
\* id and its text (names, languages and timestamps are left out). The view
\* that mounts after a switch constructs a service of its own, which is not
\* connected here: svc stays the service of the view that recorded.
MaxStream == 3
MaxSessions == 2

Session(id, segments) == [id |-> id, segments |-> segments]
TranscriptSegment(id, text) == [id |-> id, text |-> text]
idsOf(list) == [i \in 1..Len(list) |-> list[i].id]
segmentTexts(segments) == [i \in 1..Len(segments) |-> segments[i].text]

\* saveSession as it would be if it put the session in front without
\* looking for a record with its id (line 269): C31 rests on that search
saveSessionAlwaysInserts(stored, session) == <<session>> \o stored

\* storage.ts: saveSession replaces the record with the id of the session,
\* or puts the session in front when there is none
saveSession(stored, session) ==
  LET found == {i \in 1..Len(stored) : stored[i].id = session.id}
  IN IF found # {}
       THEN [stored EXCEPT ![CHOOSE i \in found : \A j \in found : i <= j] = session]
       ELSE <<session>> \o stored

\* storage.ts: deleteSession
deleteSession(stored, id) == SelectSeq(stored, LAMBDA s : s.id # id)

\* App: handleUpdateSession
handleUpdateSession(r, updatedSession) ==
  [r EXCEPT !.stored = saveSession(@, updatedSession),
            !.sessions = [i \in 1..Len(@) |->
                            IF @[i].id = updatedSession.id THEN updatedSession ELSE @[i]]]

\* handleTranscription as it would be if it took the segments from the
\* session of the last render instead of localSegmentsRef (line 95): C27
\* rests on that reference
handleTranscriptionFromSession(r, text, isFinal) ==
  IF isFinal
    THEN LET newSegment == TranscriptSegment(r.minted + 1, trim(text))
             updatedSegments == Append(r.sessionRef.segments, newSegment)
             r1 == [r EXCEPT !.localSegments = updatedSegments, !.minted = @ + 1]
             r2 == IF r.mounted
                     THEN [r1 EXCEPT !.renderedSegments = updatedSegments,
                                     !.liveTranscript = <<>>]
                     ELSE r1
         IN handleUpdateSession(r2, [r.sessionRef EXCEPT !.segments = updatedSegments])
    ELSE IF r.mounted THEN [r EXCEPT !.liveTranscript = text] ELSE r

\* SessionView: handleTranscription. crypto.randomUUID() gives an id that
\* was never given before; the state setters do nothing once the view is
\* unmounted, the refs and the update callback still work
handleTranscription(r, text, isFinal) ==
  IF isFinal
    THEN LET newSegment == TranscriptSegment(r.minted + 1, trim(text))
             updatedSegments == Append(r.localSegments, newSegment)
             r1 == [r EXCEPT !.localSegments = updatedSegments, !.minted = @ + 1]
             r2 == IF r.mounted
                     THEN [r1 EXCEPT !.renderedSegments = updatedSegments,
                                     !.liveTranscript = <<>>]
                     ELSE r1
         IN handleUpdateSession(r2, [r.sessionRef EXCEPT !.segments = updatedSegments])
    ELSE IF r.mounted THEN [r EXCEPT !.liveTranscript = text] ELSE r

\* the callbacks a method of the service invoked reach the view in order
RECURSIVE deliverCalls(_, _)
deliverCalls(r, calls) ==
  IF calls = <<>> THEN r
  ELSE LET c == Head(calls)
       IN deliverCalls(IF c.kind = "segment" THEN handleTranscription(r, c.text, c.isFinal)
                       ELSE IF r.mounted THEN handleError(r)
                       ELSE r,
                       Tail(calls))

\* the state of a SessionView that mounts for a session
mountView(r, session) ==
  [r EXCEPT !.mounted = TRUE, !.sessionRef = session,
            !.localSegments = session.segments, !.renderedSegments = session.segments,
            !.liveTranscript = <<>>, !.isRecording = FALSE, !.status = "DISCONNECTED"]

\* the selected session of the App, as a sequence of none or one
selectedSession(r) == SelectSeq(r.sessions, LAMBDA s : s.id = r.selectedSessionId)

\* the App renders: a view whose session is still selected takes the
\* session into sessionRef; a view whose session is no longer selected
\* unmounts, its cleanup calls disconnect(), and a view of the selected
\* session, if there is one, mounts
render(r, s) ==
  LET sel == selectedSession(r)
  IN IF r.mounted /\ sel # <<>> /\ sel[1].id = r.sessionRef.id
       THEN [r |-> [r EXCEPT !.sessionRef = sel[1]], s |-> s, out |-> <<>>]
     ELSE LET d == IF r.mounted THEN disconnect(s) ELSE Ret(s, <<>>, FALSE)
              r1 == deliverCalls([r EXCEPT !.mounted = FALSE], d.out)
          IN [r |-> IF sel # <<>> THEN mountView(r1, sel[1]) ELSE r1,
              s |-> d.s, out |-> d.out]

\* the bookkeeping every step of the recording shares: the callbacks the
\* step invoked, the finals among them (rec.delivered: the final texts the
\* segment callback received so far; rec.stream: the output deltas the
\* channel delivered until disconnect() completed), the step
RecStep(op, r, s, out) ==
  /\ rec' = [r EXCEPT !.delivered = @ \o finalTexts(out)]
  /\ svc' = s
  /\ fired' = out
  /\ lastOp' = op
  /\ UNCHANGED <<apc, resuming, cancelled, quiet, msg, views, failure, pcm, audio>>

\* onmessage of the channel of the recording
RecMessage ==
  /\ chan[1] = "open"
  /\ \E m \in Messages :
       /\ Len(rec.stream) + Len(m.output) <= MaxStream
       /\ Len(svc.currentInputText) + Len(m.input) <= MaxBuf
       /\ LET h == handleMessage(svc, m)
          IN RecStep(Event("onmessage", 1, 0),
                     [deliverCalls(rec, h.out) EXCEPT !.stream = IF svc.onTranscription # 0 THEN @ \o m.output ELSE @],
                     h.s, h.out)
  /\ UNCHANGED chan

\* onclose of the channel of the recording
RecClose ==
  /\ chan[1] = "open"
  /\ \E code \in CloseCodes :
       LET h == onclose(svc, code)
       IN RecStep(Event("onclose", 1, code), deliverCalls(rec, h.out), h.s, h.out)
  /\ chan' = [chan EXCEPT ![1] = "closed"]

\* a render that follows the updates of a message or of a close event
RecRender ==
  /\ rec.mounted
  /\ LET n == render(rec, svc)
     IN /\ n.r # rec
        /\ RecStep(Call("render", FALSE, FALSE), n.r, n.s, n.out)
  /\ UNCHANGED chan

\* toggleRecording while recording, and the render that follows the click
ToggleStop ==
  /\ rec.mounted /\ rec.isRecording
  /\ LET d == disconnect(svc)
         r1 == deliverCalls(rec, d.out)
         r2 == [r1 EXCEPT !.isRecording = FALSE, !.status = "DISCONNECTED",
                          !.liveTranscript = <<>>]
         r3 == handleUpdateSession(r2, r2.sessionRef)
         n == render(r3, d.s)
     IN RecStep(Call("stop", FALSE, FALSE), n.r, n.s, d.out \o n.out)
  /\ UNCHANGED chan

\* handleDeleteSession, and the render that follows the click
DeleteSession ==
  /\ \E i \in 1..Len(rec.sessions) :
       LET id == rec.sessions[i].id
           r1 == [rec EXCEPT !.stored = deleteSession(@, id),
                             !.sessions = deleteSession(@, id),
                             !.selectedSessionId = IF @ = id THEN 0 ELSE @,
                             !.deleted = @ \cup {id}]
           n == render(r1, svc)
       IN RecStep(Call("delete", FALSE, FALSE), n.r, n.s, n.out)
  /\ UNCHANGED chan

\* handleCreateSession with createSession of storage.ts, and the render
\* that follows the click
CreateSession ==
  /\ rec.created < MaxSessions
  /\ LET newSession == Session(rec.created + 1, <<>>)
         r1 == [rec EXCEPT !.stored = saveSession(@, newSession),
                           !.sessions = <<newSession>> \o @,
                           !.selectedSessionId = newSession.id,
                           !.created = @ + 1]
         n == render(r1, svc)
     IN RecStep(Call("create", FALSE, FALSE), n.r, n.s, n.out)
  /\ UNCHANGED chan

\* handleSelectSession of another session, and the render that follows
\* the click
SelectOther ==
  /\ \E i \in 1..Len(rec.sessions) :
       /\ rec.sessions[i].id # rec.selectedSessionId
       /\ LET n == render([rec EXCEPT !.selectedSessionId = rec.sessions[i].id], svc)
          IN RecStep(Call("select", FALSE, FALSE), n.r, n.s, n.out)
  /\ UNCHANGED chan

NextRec ==
  \/ RecMessage
  \/ RecClose
  \/ RecRender
  \/ ToggleStop
  \/ DeleteSession
  \/ CreateSession
  \/ SelectOther

\* the first session was created and selected, its view pressed record and
\* the session is Connected
InitRec ==
  /\ svc = [NewService EXCEPT !.isConnected = TRUE, !.onTranscription = 1, !.onError = 1,
                              !.audioContext = 1, !.mediaStream = 1, !.source = 1,
                              !.processor = 1, !.session = 1]
  /\ apc = [a \in Attempts |-> IF a = 1 THEN "settled" ELSE "idle"]
  /\ chan = [a \in Attempts |-> IF a = 1 THEN "open" ELSE "none"]
  /\ resuming = {}
  /\ cancelled = {}
  /\ quiet = FALSE
  /\ fired = <<>>
  /\ lastOp = Event("sessionResolve", 1, 0)
  /\ msg = EmptyMessage
  /\ views = <<>>
  /\ failure = "none"
  /\ pcm = <<>>
  /\ rec = [stored |-> <<Session(1, <<>>)>>, sessions |-> <<Session(1, <<>>)>>,
            selectedSessionId |-> 1, mounted |-> TRUE, sessionRef |-> Session(1, <<>>),
            localSegments |-> <<>>, renderedSegments |-> <<>>, liveTranscript |-> <<>>,
            isRecording |-> TRUE, status |-> "CONNECTED",
            created |-> 1, minted |-> 0, stream |-> <<>>, delivered |-> <<>>,
            deleted |-> {}]
  /\ audio = <<>>

SpecRec == InitRec /\ [][NextRec]_vars

\* C27: on every step that leaves the view of the session mounted, the
\* segment list keeps the segments it had, in place and unchanged, and
\* gains at its end one segment per final emission of the step, in the
\* order of emission, with the emitted text and an id no segment had before
C27_SegmentsAppendOnly ==
  [][(rec.mounted /\ rec'.mounted /\ rec'.sessionRef.id = rec.sessionRef.id)
       => LET old == rec.localSegments
              new == rec'.localSegments
              emitted == finalTexts(fired')
          IN /\ Len(new) = Len(old) + Len(emitted)
             /\ SubSeq(new, 1, Len(old)) = old
             /\ \A j \in 1..Len(emitted) :
                  /\ new[Len(old) + j].text = emitted[j]
                  /\ \A k \in 1..(Len(old) + j - 1) : new[k].id # new[Len(old) + j].id
             /\ rec'.renderedSegments = new]_vars

\* the recording was stopped with two segments in the list, the second
\* from the flush of disconnect()
C27_Witness ==
  /\ lastOp.op = "stop"
  /\ rec.mounted
  /\ Len(rec.localSegments) = 2
  /\ Len(finalTexts(fired)) = 1
  /\ rec.localSegments[2].text = finalTexts(fired)[1]
  /\ rec.localSegments[1].id # rec.localSegments[2].id

\* the record of a session in the storage, as a sequence of none or one
storedRecord(id) == SelectSeq(rec'.stored, LAMBDA s : s.id = id)

\* C25: when the stop operation completes, the stored record of the
\* session holds, in the order of emission, every final segment the
\* segment callback received during the recording, the one flushed by
\* disconnect() included
C25_StopPersistsFinals ==
  [][lastOp'.op = "stop"
       => /\ storedRecord(rec.sessionRef.id) # <<>>
          /\ segmentTexts(storedRecord(rec.sessionRef.id)[1].segments) = rec'.delivered]_vars

\* the preview of the engine: the output buffer if it is not blank,
\* otherwise the input-echo buffer if it is not blank, otherwise nothing
enginePreview(s) ==
  IF trim(s.currentOutputText) # <<>> THEN s.currentOutputText
  ELSE IF trim(s.currentInputText) # <<>> THEN s.currentInputText
  ELSE <<>>

\* SessionView: segmentsToDisplay, the rendered segments and, when the
\* live transcript is not empty, one entry for it that is not final
segmentsToDisplay(r) ==
  [i \in 1..Len(r.renderedSegments) |-> [text |-> r.renderedSegments[i].text, isFinal |-> TRUE]]
    \o (IF r.liveTranscript # <<>> THEN <<[text |-> r.liveTranscript, isFinal |-> FALSE]>>
        ELSE <<>>)

\* C28: after a message the handler of the recording view processed, the
\* live transcript the view shows is the preview of the engine, and the
\* entries the view displays are final except, at most, the last
C28_PreviewTracksEngine ==
  [][(lastOp'.op = "onmessage" /\ svc.onTranscription # 0 /\ rec.mounted)
       => /\ rec'.liveTranscript = enginePreview(svc')
          /\ \A i \in 1..(Len(segmentsToDisplay(rec')) - 1) :
               segmentsToDisplay(rec')[i].isFinal]_vars

\* C30: no record with the id of a deleted session is in the storage, and
\* the storage and the sessions of the App hold the same ids in the same order
C30_DeletedStaysDeleted ==
  /\ \A i \in 1..Len(rec.stored) : rec.stored[i].id \notin rec.deleted
  /\ idsOf(rec.stored) = idsOf(rec.sessions)

\* a text without its whitespace; the texts of a sequence, joined
strip(t) == SelectSeq(t, LAMBDA c : c \notin Whitespace)
RECURSIVE joined(_)
joined(texts) == IF texts = <<>> THEN <<>> ELSE Head(texts) \o joined(Tail(texts))

\* the output deltas received so far are, whitespace aside, the final
\* segments emitted so far followed by the output buffer
Conserved == strip(rec.stream) = strip(joined(rec.delivered) \o svc.currentOutputText)

\* C29: from connect() until disconnect() has completed, every step leaves
\* the content of the output deltas received so far equal to the final
\* segments emitted so far followed by the output buffer, and every final
\* segment is non-empty and has no whitespace at its ends
C29_ContentConserved ==
  [][svc.onTranscription # 0
       => /\ Conserved'
          /\ \A i \in 1..Len(rec'.delivered) :
               rec'.delivered[i] # <<>> /\ trim(rec'.delivered[i]) = rec'.delivered[i]]_vars

\* ---------------------------------------------------------------- audio capture
\* The lifecycle of the service with its audio side: every connect() makes
\* an AudioContext of its own (named by the number of the attempt), every
\* startAudioStreaming makes a capture pump (source and ScriptProcessor on
\* the context this.audioContext names at that moment) whose onaudioprocess
\* sends on the session promise of its attempt. A pump fires as long as
\* its processor is connected and its context is not closed. Up to
\* MaxFrames capture buffers are produced; messages are left out.
MaxFrames == 2

\* context: the context this.audioContext names (0: null); processor: the
\* attempt whose pump this.processor names; graph: per attempt the context
\* its pump runs on (0: no pump, or disconnected); closed: the contexts
\* closed; awaited: per attempt the context whose resume() it awaits;
\* fulfilled: the attempts whose session promise resolved; queued: per
\* attempt the frames whose send waits for the session promise; captured:
\* the capture buffers produced; sent: the frames the last step handed to
\* a channel, in order; lastSent: per attempt the last frame handed to its
\* channel
NoAudio ==
  [context |-> 0, processor |-> 0, graph |-> [a \in Attempts |-> 0], closed |-> {},
   awaited |-> [a \in Attempts |-> 0], fulfilled |-> {},
   queued |-> [a \in Attempts |-> <<>>], captured |-> 0, sent |-> <<>>,
   lastSent |-> [a \in Attempts |-> 0]]

\* a frame handed to the channel of attempt a
Frame(a, n) == [a |-> a, n |-> n]

RECURSIVE lastOf(_, _, _)
lastOf(frames, a, n) ==
  IF frames = <<>> THEN n
  ELSE lastOf(Tail(frames), a, IF Head(frames).a = a THEN Head(frames).n ELSE n)

\* the frames a step handed over are noted
handOver(au, frames) ==
  [au EXCEPT !.sent = frames,
             !.lastSent = [a \in Attempts |-> lastOf(frames, a, @[a])]]

\* disconnect(): this.processor is disconnected and this.audioContext closed
releaseAudio(au) ==
  [au EXCEPT !.graph = [a \in Attempts |-> IF a = au.processor THEN 0 ELSE @[a]],
             !.processor = 0,
             !.closed = IF au.context # 0 THEN @ \cup {au.context} ELSE @,
             !.context = 0]

\* the audio side of a method: released if the method ran disconnect()
audioAfter(r, au) == IF r.disc THEN releaseAudio(au) ELSE au

\* startAudioStreaming after the optional await: the pump of attempt a
startPump(au, s, a) ==
  IF s.audioContext = 0 \/ s.mediaStream = 0 THEN au
  ELSE [au EXCEPT !.graph[a] = au.context, !.processor = a]

\* the queued sends as they would run if the callbacks of a promise ran
\* last registered first: C22 rests on their running in registration order
RECURSIVE reverse(_)
reverse(q) == IF q = <<>> THEN <<>> ELSE reverse(Tail(q)) \o <<Head(q)>>
runQueuedReversed(q, s, a) ==
  IF s.isConnected THEN [i \in 1..Len(q) |-> Frame(a, reverse(q)[i])] ELSE <<>>

\* the callbacks queued on the session promise of attempt a run when it
\* resolves, in the order of their registration; each tests isConnected
runQueued(q, s, a) ==
  IF s.isConnected THEN [i \in 1..Len(q) |-> Frame(a, q[i])] ELSE <<>>

\* the bookkeeping every step shares
AudStep(r, started, au) ==
  /\ svc' = r.s
  /\ fired' = r.out
  /\ cancelled' = IF r.disc THEN cancelled \cup begun \cup started ELSE cancelled
  /\ quiet' = IF started # {} THEN r.disc ELSE (quiet \/ r.disc)
  /\ audio' = au
  /\ UNCHANGED <<msg, views, failure, pcm, rec>>

AudConnect ==
  \E throws \in {FALSE, TRUE} :
    IF svc.isConnected
      THEN /\ AudStep(connect(svc, 0, throws), {}, handOver(audio, <<>>))
           /\ lastOp' = Call("connect", FALSE, FALSE)
           /\ UNCHANGED <<apc, chan, resuming>>
      ELSE \E a \in Attempts :
           /\ apc[a] = "idle"
           /\ \A b \in Attempts : b < a => apc[b] # "idle"
           /\ AudStep(connect(svc, a, throws), {a},
                      IF throws THEN releaseAudio(handOver(audio, <<>>))
                      ELSE [handOver(audio, <<>>) EXCEPT !.context = a])
           /\ apc' = [apc EXCEPT ![a] = IF throws THEN "settled" ELSE "awaitMic"]
           /\ lastOp' = Call("connect", TRUE, FALSE)
           /\ UNCHANGED <<chan, resuming>>

AudDisconnect ==
  /\ AudStep(disconnect(svc), {}, releaseAudio(handOver(audio, <<>>)))
  /\ lastOp' = Call("disconnect", FALSE, lastOp.op = "disconnect")
  /\ UNCHANGED <<apc, chan, resuming>>

AudGetUserMediaResolve(a) ==
  /\ apc[a] = "awaitMic"
  /\ AudStep(Ret([svc EXCEPT !.mediaStream = 1], <<>>, FALSE), {}, handOver(audio, <<>>))
  /\ apc' = [apc EXCEPT ![a] = "awaitOpen"]
  /\ chan' = [chan EXCEPT ![a] = "connecting"]
  /\ lastOp' = Event("getUserMediaResolve", a, 0)
  /\ UNCHANGED resuming

AudGetUserMediaReject(a) ==
  /\ apc[a] = "awaitMic"
  /\ LET r == connectCatch(svc, "microphone")
     IN AudStep(r, {}, audioAfter(r, handOver(audio, <<>>)))
  /\ apc' = [apc EXCEPT ![a] = "settled"]
  /\ lastOp' = Event("getUserMediaReject", a, 0)
  /\ UNCHANGED <<chan, resuming>>

\* the session promise resolves: connect() stores the session, then the
\* queued sends run
AudSessionResolve(a) ==
  /\ apc[a] = "awaitOpen"
  /\ chan[a] = "open"
  /\ AudStep(Ret([svc EXCEPT !.session = 1], <<>>, FALSE), {},
             [handOver(audio, runQueued(audio.queued[a], svc, a))
                EXCEPT !.queued[a] = <<>>, !.fulfilled = @ \cup {a}])
  /\ apc' = [apc EXCEPT ![a] = "settled"]
  /\ lastOp' = Event("sessionResolve", a, 0)
  /\ UNCHANGED <<chan, resuming>>

\* the session promise rejects: the queued sends never run
AudSessionReject(a) ==
  /\ apc[a] = "awaitOpen"
  /\ chan[a] \in {"connecting", "closed"}
  /\ LET r == connectCatch(svc, "network")
     IN AudStep(r, {}, [audioAfter(r, handOver(audio, <<>>)) EXCEPT !.queued[a] = <<>>])
  /\ apc' = [apc EXCEPT ![a] = "settled"]
  /\ chan' = [chan EXCEPT ![a] = "closed"]
  /\ lastOp' = Event("sessionReject", a, 0)
  /\ UNCHANGED resuming

AudOnOpen(a) ==
  /\ chan[a] = "connecting"
  /\ chan' = [chan EXCEPT ![a] = "open"]
  /\ LET s1 == [svc EXCEPT !.isConnected = TRUE]
         au == handOver(audio, <<>>)
     IN \E suspended \in BOOLEAN :
          IF s1.audioContext = 0 \/ s1.mediaStream = 0
            THEN /\ ~suspended
                 /\ AudStep(Ret(s1, <<>>, FALSE), {}, au)
                 /\ UNCHANGED resuming
          ELSE IF suspended
            THEN /\ AudStep(Ret(s1, <<>>, FALSE), {}, [au EXCEPT !.awaited[a] = au.context])
                 /\ resuming' = resuming \cup {a}
          ELSE /\ AudStep(Ret(createAudioGraph(s1), <<>>, FALSE), {}, startPump(au, s1, a))
               /\ UNCHANGED resuming
  /\ lastOp' = Event("onopen", a, 0)
  /\ UNCHANGED apc

\* audioContext.resume() settles: a context that was closed in the
\* meantime may reject it, and startAudioStreaming ends there
AudResumeDone(a) ==
  /\ a \in resuming
  /\ resuming' = resuming \ {a}
  /\ \E rejects \in BOOLEAN :
       /\ rejects => audio.awaited[a] \in audio.closed
       /\ IF rejects
            THEN AudStep(Ret(svc, <<>>, FALSE), {}, handOver(audio, <<>>))
            ELSE AudStep(Ret(createAudioGraph(svc), <<>>, FALSE), {},
                         startPump(handOver(audio, <<>>), svc, a))
  /\ lastOp' = Event("resumeDone", a, 0)
  /\ UNCHANGED <<apc, chan>>

AudOnError(a) ==
  /\ chan[a] \in {"connecting", "open"}
  /\ LET r == onerror(svc)
     IN AudStep(r, {}, audioAfter(r, handOver(audio, <<>>)))
  /\ lastOp' = Event("onerror", a, 0)
  /\ UNCHANGED <<apc, chan, resuming>>

AudOnClose(a) ==
  /\ chan[a] \in {"connecting", "open"}
  /\ chan' = [chan EXCEPT ![a] = "closed"]
  /\ \E code \in CloseCodes :
       /\ LET r == onclose(svc, code)
          IN AudStep(r, {}, audioAfter(r, handOver(audio, <<>>)))
       /\ lastOp' = Event("onclose", a, code)
  /\ UNCHANGED <<apc, resuming>>

\* onaudioprocess of the pump of attempt a: a capture buffer is produced;
\* if isConnected, its send is registered on the session promise of the
\* attempt and runs at once if that promise has resolved
Capture(a) ==
  /\ audio.graph[a] # 0
  /\ audio.graph[a] \notin audio.closed
  /\ audio.captured < MaxFrames
  /\ LET n == audio.captured + 1
         au == [audio EXCEPT !.captured = n]
     IN AudStep(Ret(svc, <<>>, FALSE), {},
                IF ~svc.isConnected THEN handOver(au, <<>>)
                ELSE IF a \in audio.fulfilled THEN handOver(au, <<Frame(a, n)>>)
                ELSE IF apc[a] = "awaitOpen"
                  THEN [handOver(au, <<>>) EXCEPT !.queued[a] = Append(@, n)]
                ELSE handOver(au, <<>>))
  /\ lastOp' = Event("onaudioprocess", a, 0)
  /\ UNCHANGED <<apc, chan, resuming>>

NextAudio ==
  \/ AudDisconnect
  \/ AudConnect
  \/ \E a \in Attempts : AudGetUserMediaResolve(a)
  \/ \E a \in Attempts : AudGetUserMediaReject(a)
  \/ \E a \in Attempts : AudSessionResolve(a)
  \/ \E a \in Attempts : AudSessionReject(a)
  \/ \E a \in Attempts : AudOnOpen(a)
  \/ \E a \in Attempts : AudResumeDone(a)
  \/ \E a \in Attempts : AudOnError(a)
  \/ \E a \in Attempts : AudOnClose(a)
  \/ \E a \in Attempts : Capture(a)

InitAudio ==
  /\ svc = NewService
  /\ apc = [a \in Attempts |-> "idle"]
  /\ chan = [a \in Attempts |-> "none"]
  /\ resuming = {}
  /\ cancelled = {}
  /\ quiet = FALSE
  /\ fired = <<>>
  /\ lastOp = Call("init", FALSE, FALSE)
  /\ msg = EmptyMessage
  /\ views = <<>>
  /\ failure = "none"
  /\ pcm = <<>>
  /\ rec = <<>>
  /\ audio = NoAudio

SpecAudio == InitAudio /\ [][NextAudio]_vars

\* C26: every frame a step hands to a channel goes to a channel that is
\* open (its open event came, its close event did not) and that belongs to
\* an attempt during or after which disconnect() was not invoked
C26_FramesOnlyWhileConnected ==
  [][\A i \in 1..Len(audio'.sent) :
       /\ chan'[audio'.sent[i].a] = "open"
       /\ audio'.sent[i].a \notin cancelled']_vars

\* ---------------------------------------------------------------- one connection, in order
\* One connection from its open event on, the session promise still
\* pending: the messages that arrive and the capture buffers the pump
\* produces. rec holds what the channel delivered and what the segment
\* callback received: stream, the output deltas handled until disconnect()
\* completed, and delivered, the texts of the final segments.
OrdStep(r, au) ==
  /\ svc' = r.s
  /\ fired' = r.out
  /\ cancelled' = IF r.disc THEN cancelled \cup begun ELSE cancelled
  /\ quiet' = (quiet \/ r.disc)
  /\ audio' = audioAfter(r, handOver(au, <<>>))
  /\ UNCHANGED <<apc, resuming, msg, views, failure, pcm>>

\* onmessage: the handler runs when the message arrives
OrdMessage ==
  /\ chan[1] = "open"
  /\ \E m \in Messages :
       /\ Len(rec.stream) + Len(m.output) <= MaxStream
       /\ Len(svc.currentInputText) + Len(m.input) <= MaxBuf
       /\ LET h == handleMessage(svc, m)
          IN /\ OrdStep(h, audio)
             /\ rec' = [stream |-> IF svc.onTranscription # 0 THEN rec.stream \o m.output
                                   ELSE rec.stream,
                        delivered |-> rec.delivered \o finalTexts(h.out)]
  /\ lastOp' = Event("onmessage", 1, 0)
  /\ UNCHANGED chan

\* onerror
OrdError ==
  /\ chan[1] = "open"
  /\ LET h == onerror(svc)
     IN /\ OrdStep(h, audio)
        /\ rec' = [rec EXCEPT !.delivered = @ \o finalTexts(h.out)]
  /\ lastOp' = Event("onerror", 1, 0)
  /\ UNCHANGED chan

\* onclose
OrdClose ==
  /\ chan[1] = "open"
  /\ \E code \in CloseCodes :
       /\ LET h == onclose(svc, code)
          IN /\ OrdStep(h, audio)
             /\ rec' = [rec EXCEPT !.delivered = @ \o finalTexts(h.out)]
       /\ lastOp' = Event("onclose", 1, code)
  /\ chan' = [chan EXCEPT ![1] = "closed"]

\* the caller invokes disconnect()
OrdDisconnect ==
  /\ LET h == disconnect(svc)
     IN /\ OrdStep(h, audio)
        /\ rec' = [rec EXCEPT !.delivered = @ \o finalTexts(h.out)]
  /\ lastOp' = Call("disconnect", FALSE, lastOp.op = "disconnect")
  /\ UNCHANGED chan

NextOrder ==
  \/ OrdMessage
  \/ OrdError
  \/ OrdClose
  \/ OrdDisconnect
  \/ \E a \in Attempts : Capture(a)
  \/ \E a \in Attempts : AudSessionResolve(a)
  \/ \E a \in Attempts : AudSessionReject(a)

\* the state after connect(), the microphone grant and onopen of the first
\* attempt, its audio context running
InitOrder ==
  /\ svc = [NewService EXCEPT !.isConnected = TRUE, !.onTranscription = 1, !.onError = 1,
                              !.audioContext = 1, !.mediaStream = 1, !.source = 1,
                              !.processor = 1]
  /\ apc = [a \in Attempts |-> IF a = 1 THEN "awaitOpen" ELSE "idle"]
  /\ chan = [a \in Attempts |-> IF a = 1 THEN "open" ELSE "none"]
  /\ resuming = {}
  /\ cancelled = {}
  /\ quiet = FALSE
  /\ fired = <<>>
  /\ lastOp = Event("onopen", 1, 0)
  /\ msg = EmptyMessage
  /\ views = <<>>
  /\ failure = "none"
  /\ pcm = <<>>
  /\ rec = [stream |-> <<>>, delivered |-> <<>>]
  /\ audio = [NoAudio EXCEPT !.context = 1, !.processor = 1, !.graph[1] = 1]

SpecOrder == InitOrder /\ [][NextOrder]_vars

\* a text is the beginning of another
IsPrefix(t, u) == Len(t) <= Len(u) /\ SubSeq(u, 1, Len(t)) = t

\* C22: the final segments delivered so far are, whitespace aside, the
\* beginning of the output deltas received so far, in the order of their
\* arrival; and the frames a step hands to a channel are in the order in
\* which their capture buffers were produced, after every frame handed to
\* that channel before
C22_ArrivalAndCaptureOrder ==
  [][/\ IsPrefix(strip(joined(rec'.delivered)), strip(rec'.stream))
     /\ \A i \in 1..Len(audio'.sent) :
          /\ audio'.sent[i].n > audio.lastSent[audio'.sent[i].a]
          /\ \A j \in 1..(i - 1) :
               audio'.sent[j].a = audio'.sent[i].a => audio'.sent[j].n < audio'.sent[i].n]_vars

\* two final segments were delivered, and two frames whose sends waited
\* for the session promise were handed over when it resolved, in the
\* order of capture
C22_Witness ==
  /\ lastOp.op = "sessionResolve"
  /\ Len(rec.delivered) = 2
  /\ audio.sent = <<Frame(1, 1), Frame(1, 2)>>

\* ---------------------------------------------------------------- the storage
\* The storage module alone: createSession, saveSession and deleteSession
\* on the item of localStorage, which at the start is absent or holds
\* something that does not parse. The item is the list written as a flat
\* sequence of tokens, one per session followed by one per segment of it;
\* loadSessions reads it back. rec holds the item, the number of sessions
\* created and the argument of the last call. Up to MaxRecords sessions
\* are created.
MaxRecords == 3

SegmentLists ==
  {<<>>,
   <<TranscriptSegment(1, <<"a">>)>>,
   <<TranscriptSegment(1, <<"a">>), TranscriptSegment(2, <<".">>)>>}

Token(kind, id, text) == [kind |-> kind, id |-> id, text |-> text]

\* JSON.stringify of the list
RECURSIVE stringify(_)
stringify(sessions) ==
  IF sessions = <<>> THEN <<>>
  ELSE LET s == Head(sessions)
       IN <<Token("session", s.id, <<>>)>>
            \o [i \in 1..Len(s.segments) |->
                  Token("segment", s.segments[i].id, s.segments[i].text)]
            \o stringify(Tail(sessions))

\* JSON.parse of the item: the sessions read so far, then the rest
RECURSIVE parse(_, _)
parse(tokens, sessions) ==
  IF tokens = <<>> THEN sessions
  ELSE LET k == Head(tokens)
       IN parse(Tail(tokens),
                IF k.kind = "session" THEN Append(sessions, Session(k.id, <<>>))
                ELSE [sessions EXCEPT ![Len(sessions)].segments =
                        Append(@, TranscriptSegment(k.id, k.text))])

\* localStorage.setItem(STORAGE_KEY, JSON.stringify(sessions))
setItem(sessions) == [state |-> "json", data |-> stringify(sessions)]

\* storage.ts: loadSessions; no item, or one that does not parse, gives []
loadSessions(item) == IF item.state = "json" THEN parse(item.data, <<>>) ELSE <<>>

\* the bookkeeping every call of the storage module shares
StoreStep(op, item, created, arg) ==
  /\ rec' = [item |-> item, created |-> created, arg |-> arg]
  /\ lastOp' = Call(op, FALSE, FALSE)
  /\ fired' = <<>>
  /\ UNCHANGED <<svc, apc, chan, resuming, cancelled, quiet, msg, views, failure, pcm, audio>>

\* createSession: crypto.randomUUID() gives an id never given before
StoreCreate ==
  /\ rec.created < MaxRecords
  /\ LET newSession == Session(rec.created + 1, <<>>)
     IN StoreStep("createSession",
                  setItem(saveSession(loadSessions(rec.item), newSession)),
                  rec.created + 1, newSession)

\* saveSession of a session that was created, with some segments
StoreSave ==
  \E id \in 1..rec.created, segments \in SegmentLists :
    StoreStep("saveSession",
              setItem(saveSession(loadSessions(rec.item), Session(id, segments))),
              rec.created, Session(id, segments))

\* deleteSession of the id of a session that was created
StoreDelete ==
  \E id \in 1..rec.created :
    StoreStep("deleteSession",
              setItem(deleteSession(loadSessions(rec.item), id)),
              rec.created, Session(id, <<>>))

NextStore ==
  \/ StoreCreate
  \/ StoreSave
  \/ StoreDelete

InitStore ==
  /\ svc = NewService
  /\ apc = [a \in Attempts |-> "idle"]
  /\ chan = [a \in Attempts |-> "none"]
  /\ resuming = {}
  /\ cancelled = {}
  /\ quiet = FALSE
  /\ fired = <<>>
  /\ lastOp = Call("init", FALSE, FALSE)
  /\ msg = EmptyMessage
  /\ views = <<>>
  /\ failure = "none"
  /\ pcm = <<>>
  /\ \E state \in {"absent", "corrupt"} :
       rec = [item |-> [state |-> state, data |-> <<>>], created |-> 0,
              arg |-> Session(0, <<>>)]
  /\ audio = <<>>

SpecStore == InitStore /\ [][NextStore]_vars

\* the positions of a list that hold a record with the id
positionsOf(list, id) == {i \in 1..Len(list) : list[i].id = id}

\* a list without its element at position p
without(list, p) == SubSeq(list, 1, p - 1) \o SubSeq(list, p + 1, Len(list))

\* C31: after every call the stored list holds no two records with the
\* same id; saveSession(r) replaces the record with r's id where it stands
\* and leaves the others as they are, or puts r in front if there is none,
\* and loadSessions then gives r for that id; createSession puts a new
\* record in front; deleteSession(id) takes out the record with the id
\* and leaves the others in their order
C31_StorageUpsert ==
  [][LET old == loadSessions(rec.item)
         new == loadSessions(rec'.item)
         r == rec'.arg
     IN /\ \A i, j \in 1..Len(new) : new[i].id = new[j].id => i = j
        /\ lastOp'.op \in {"saveSession", "createSession"}
             => /\ IF positionsOf(old, r.id) # {}
                     THEN /\ Len(new) = Len(old)
                          /\ \A i \in 1..Len(old) :
                               new[i] = IF old[i].id = r.id THEN r ELSE old[i]
                     ELSE new = <<r>> \o old
                /\ \E i \in 1..Len(new) : new[i] = r
        /\ lastOp'.op = "createSession" => positionsOf(old, r.id) = {}
        /\ lastOp'.op = "deleteSession"
             => /\ positionsOf(new, r.id) = {}
                /\ IF positionsOf(old, r.id) = {} THEN new = old
                   ELSE \E p \in positionsOf(old, r.id) : new = without(old, p)]_vars

\* saveSession replaced the second of two stored records by one with
\* two segments
C31_Witness ==
  /\ lastOp.op = "saveSession"
  /\ Len(loadSessions(rec.item)) = 2
  /\ loadSessions(rec.item)[2] = rec.arg
  /\ Len(rec.arg.segments) = 2

====
